---- MODULE Spec2Model ----
(***************************************************************************)
(* Model of the service-reminder engine of autoshop-crm and of the         *)
(* requests around it:                                                     *)
(*   backend/app/services/mileage.py    MileageService                     *)
(*   backend/app/services/scheduler.py  check_service_reminders            *)
(*   backend/app/services/sms.py        SMSService (the notification sink) *)
(*   backend/app/routers/cars.py        update_car                         *)
(*   backend/app/routers/work_orders.py create_work_order,                 *)
(*                                      update_work_order                  *)
(*   backend/app/routers/invoices.py    update_invoice                     *)
(*   backend/app/routers/appointments.py update_appointment                *)
(*   backend/app/routers/auth.py        staff_login, customer_login        *)
(*   backend/app/utils/auth.py          tokens, get_current_user,          *)
(*                                      require_role                       *)
(* Time is counted in whole days.  A sweep is a process whose position is  *)
(* kept in sweep[p].pc; every database statement group of the job is one   *)
(* step, so that other requests (and, in SpecConc, a second firing of the  *)
(* job) can run between them.  SpecVisits runs the work-order requests     *)
(* that write the visit history read by the predictor, SpecOrders the life *)
(* of a work order, SpecFleet the sweep over cars and shops of every kind  *)
(* with update_car requests in between, SpecLive the job that fires again  *)
(* and again (with fairness), SpecInvoices, SpecAppointments and SpecAuth  *)
(* the requests of the front desk and the login.                           *)
(* An exception is the value Raise(e) of an operator, or a step that       *)
(* leaves the store unchanged.                                             *)
(* Failures: the sink returns True, returns False or raises; a query or    *)
(* commit of the loop body of check_all_cars_for_reminders may raise.  The *)
(* shop query of the job and mark_reminder_sent are taken to complete.     *)
(***************************************************************************)
EXTENDS Integers, Sequences, FiniteSets, TLC

VARIABLES
    now,          \* datetime.utcnow(), in days
    ticks,        \* number of clock advances so far
    shops,        \* table shops:          id -> row
    cars,         \* table cars:           id -> row
    work_orders,  \* table work_orders:    id -> row
    reminders,    \* table service_reminders: sequence, id = index
    sms_log,      \* table sms_logs (rows written by SMSService._log_sms)
    sweep,        \* one record per execution context of check_service_reminders
    jobs,         \* number of trigger firings so far
    updates,      \* number of update requests so far
    invoices,     \* table invoices:      id -> row
    appointments, \* table appointments:  id -> row
    staff,        \* table staff:         id -> row
    customers,    \* table customers:     id -> row
    tokens        \* the access tokens issued so far

\* the tables of the front desk and of the login
office == <<invoices, appointments, staff, customers, tokens>>

vars == <<now, ticks, shops, cars, work_orders, reminders, sms_log, sweep, jobs,
          updates, office>>

----------------------------------------------------------------------------
(* Bounds of the model *)

MaxJobs == 2
MaxTicks == 2
MaxUpdates == 1
MaxOrders == 3
MaxAccounts == 2

(* Program constants *)

MIN_VISITS_FOR_PREDICTION == 2
SERVICE_REMINDER_DAYS_AHEAD == 14
RecentDays == 30

----------------------------------------------------------------------------
(* Optional values: None is the empty sequence, Some(v) a one-element one *)

None == <<>>
Some(v) == <<v>>
Val(o) == o[1]

\* The outcome of a call that raises the exception e: a pair, so that it is
\* neither None nor Some(v) nor a result tuple of needs_service_reminder
Raise(e) == <<"raise", e>>
IsRaise(r) == Len(r) = 2

\* a maximum that returns its second argument
Max_second(a, b) == b

Max(a, b) == IF a >= b THEN a ELSE b

ShopIds == {1, 2, 3}
CarIds == {1, 2, 3}
MissingCar == 4
DaysAhead == {1, SERVICE_REMINDER_DAYS_AHEAD}
Procs == {1, 2}
TickSteps == {1, RecentDays}
\* the inputs of the update_car requests
UpdatedCars == {1}
Mileages == {95000, 108000}

RECURSIVE SeqOfSet(_)
\* the elements of a finite set of integers as an ascending sequence
\* (rows come back in primary-key order)
SeqOfSet(S) ==
    IF S = {} THEN <<>>
    ELSE LET m == CHOOSE x \in S : \A y \in S : x <= y
         IN <<m>> \o SeqOfSet(S \ {m})

Range(s) == {s[i] : i \in DOMAIN s}

----------------------------------------------------------------------------
(* MileageService: the predictor *)

\* a filter without the condition on the status
DoneWithMileage_any_status(car_id) ==
    {w \in DOMAIN work_orders :
        /\ work_orders[w].car_id = car_id
        /\ work_orders[w].mileage_at_intake # None}

\* WorkOrder rows of the car with status done and a mileage reading
DoneWithMileage(car_id) ==
    {w \in DOMAIN work_orders :
        /\ work_orders[w].car_id = car_id
        /\ work_orders[w].status = "done"
        /\ work_orders[w].mileage_at_intake # None}

RECURSIVE OrderByCompletedAt(_)
\* a query ordered by WorkOrder.completed_at
OrderByCompletedAt(S) ==
    IF S = {} THEN <<>>
    ELSE LET w == CHOOSE x \in S : \A y \in S :
                    \/ Val(work_orders[x].completed_at) < Val(work_orders[y].completed_at)
                    \/ /\ work_orders[x].completed_at = work_orders[y].completed_at
                       /\ x <= y
         IN <<w>> \o OrderByCompletedAt(S \ {w})

RECURSIVE OrderByCreatedAt(_)
\* .order_by(WorkOrder.created_at), ties in primary-key order
OrderByCreatedAt(S) ==
    IF S = {} THEN <<>>
    ELSE LET w == CHOOSE x \in S : \A y \in S :
                    \/ work_orders[x].created_at < work_orders[y].created_at
                    \/ /\ work_orders[x].created_at = work_orders[y].created_at
                       /\ x <= y
         IN <<w>> \o OrderByCreatedAt(S \ {w})

\* the list work_orders of calculate_average_km_per_day
visit_list(car_id) == OrderByCreatedAt(DoneWithMileage(car_id))

\* a rate without the check for 0 days
calculate_average_km_per_day_unchecked(car_id) ==
    LET wos == visit_list(car_id)
    IN IF Len(wos) < MIN_VISITS_FOR_PREDICTION THEN None
       ELSE LET first_visit == work_orders[wos[1]]
                last_visit == work_orders[wos[Len(wos)]]
            IN Some([km |-> Max(0, Val(last_visit.mileage_at_intake)
                                     - Val(first_visit.mileage_at_intake)),
                     days |-> last_visit.created_at - first_visit.created_at])

\* a rate between the last two visits
calculate_average_km_per_day_consecutive(car_id) ==
    LET wos == visit_list(car_id)
    IN IF Len(wos) < MIN_VISITS_FOR_PREDICTION THEN None
       ELSE LET first_visit == work_orders[wos[Len(wos) - 1]]
                last_visit == work_orders[wos[Len(wos)]]
                days_diff == last_visit.created_at - first_visit.created_at
            IN IF days_diff = 0 THEN None
               ELSE Some([km |-> Max(0, Val(last_visit.mileage_at_intake)
                                          - Val(first_visit.mileage_at_intake)),
                          days |-> days_diff])

\* The rate is the fraction km / days (never negative): None when there are
\* fewer than MIN_VISITS_FOR_PREDICTION rows or the two rows are 0 days apart.
calculate_average_km_per_day(car_id) ==
    LET wos == visit_list(car_id)
    IN IF Len(wos) < MIN_VISITS_FOR_PREDICTION THEN None
       ELSE LET first_visit == work_orders[wos[1]]
                last_visit == work_orders[wos[Len(wos)]]
                mileage_diff == Val(last_visit.mileage_at_intake)
                                  - Val(first_visit.mileage_at_intake)
                days_diff == last_visit.created_at - first_visit.created_at
            IN IF days_diff = 0 THEN None
               ELSE Some([km |-> Max(0, mileage_diff), days |-> days_diff])

\* a prediction that rounds the product up
predict_mileage_ceiling(car_id, days_ahead) ==
    IF car_id \notin DOMAIN cars THEN None
    ELSE LET avg_km_per_day == calculate_average_km_per_day(car_id)
         IN IF avg_km_per_day = None THEN None
            ELSE IF cars[car_id].current_mileage = None THEN Raise("TypeError")
            ELSE Some(Val(cars[car_id].current_mileage)
                        + (Val(avg_km_per_day).km * days_ahead
                             + Val(avg_km_per_day).days - 1)
                             \div Val(avg_km_per_day).days)

\* int(avg_km_per_day * days_ahead) is the product without its fraction;
\* car.current_mileage + int(...) raises TypeError when the column is NULL
predict_mileage(car_id, days_ahead) ==
    IF car_id \notin DOMAIN cars THEN None
    ELSE LET avg_km_per_day == calculate_average_km_per_day(car_id)
         IN IF avg_km_per_day = None THEN None
            ELSE IF cars[car_id].current_mileage = None THEN Raise("TypeError")
            ELSE Some(Val(cars[car_id].current_mileage)
                        + (Val(avg_km_per_day).km * days_ahead)
                             \div Val(avg_km_per_day).days)

\* a threshold that is the current mileage when that is a multiple of the
\* interval
needs_service_reminder_ceiling(car_id) ==
    IF car_id \notin DOMAIN cars THEN <<FALSE, None, None>>
    ELSE LET car == cars[car_id]
             predicted_mileage == predict_mileage(car_id, SERVICE_REMINDER_DAYS_AHEAD)
         IN IF IsRaise(predicted_mileage) THEN predicted_mileage
            ELSE IF predicted_mileage = None THEN <<FALSE, None, None>>
            ELSE IF car.service_interval_km = 0 THEN Raise("ZeroDivisionError")
            ELSE LET service_due_mileage ==
                         ((Val(car.current_mileage) + car.service_interval_km - 1)
                             \div car.service_interval_km) * car.service_interval_km
                 IN <<Val(predicted_mileage) >= service_due_mileage,
                      predicted_mileage, Some(service_due_mileage)>>

\* a comparison of the mileage of today with the threshold
needs_service_reminder_today(car_id) ==
    IF car_id \notin DOMAIN cars THEN <<FALSE, None, None>>
    ELSE LET car == cars[car_id]
             predicted_mileage == predict_mileage(car_id, 0)
         IN IF IsRaise(predicted_mileage) THEN predicted_mileage
            ELSE IF predicted_mileage = None THEN <<FALSE, None, None>>
            ELSE IF car.service_interval_km = 0 THEN Raise("ZeroDivisionError")
            ELSE LET service_due_mileage ==
                         Val(car.current_mileage)
                           - (Val(car.current_mileage) % car.service_interval_km)
                           + car.service_interval_km
                 IN <<Val(predicted_mileage) >= service_due_mileage,
                      predicted_mileage, Some(service_due_mileage)>>

\* <<needs_reminder, predicted_mileage, service_due_mileage>>; an exception
\* of predict_mileage passes through, and current_mileage % 0 raises
\* ZeroDivisionError
needs_service_reminder(car_id) ==
    IF car_id \notin DOMAIN cars THEN <<FALSE, None, None>>
    ELSE LET car == cars[car_id]
             predicted_mileage == predict_mileage(car_id, SERVICE_REMINDER_DAYS_AHEAD)
         IN IF IsRaise(predicted_mileage) THEN predicted_mileage
            ELSE IF predicted_mileage = None THEN <<FALSE, None, None>>
            ELSE IF car.service_interval_km = 0 THEN Raise("ZeroDivisionError")
            ELSE LET last_service_mileage ==
                         Val(car.current_mileage)
                           - (Val(car.current_mileage) % car.service_interval_km)
                     service_due_mileage == last_service_mileage + car.service_interval_km
                 IN <<Val(predicted_mileage) >= service_due_mileage,
                      predicted_mileage, Some(service_due_mileage)>>

----------------------------------------------------------------------------
(* Queries of the sweep *)

\* a shop query without its filter
ActiveSmsShops_all == SeqOfSet(DOMAIN shops)

\* db.query(Shop).filter(is_active == True, sms_enabled == True).all()
ActiveSmsShops ==
    SeqOfSet({s \in DOMAIN shops : shops[s].is_active /\ shops[s].sms_enabled})

\* db.query(Car).filter(Car.shop_id == shop_id, Car.service_interval_km > 0).all()
CarsOfShop(shop_id) ==
    SeqOfSet({c \in DOMAIN cars :
                 cars[c].shop_id = shop_id /\ cars[c].service_interval_km > 0})

\* the rows matched by the recent_reminder query
RecentReminders(car_id) ==
    {r \in DOMAIN reminders :
        /\ reminders[r].car_id = car_id
        /\ reminders[r].reminder_sent
        /\ reminders[r].reminder_sent_at # None
        /\ Val(reminders[r].reminder_sent_at) >= now - RecentDays}

\* the rows matched by the "create or get" query
UnsentReminders(car_id) ==
    {r \in DOMAIN reminders :
        reminders[r].car_id = car_id /\ ~reminders[r].reminder_sent}

\* .first(): the row with the lowest id
First(S) == CHOOSE r \in S : \A q \in S : r <= q

\* a "create or get" query that never finds the unsent row
get_reminder_none(car_id) == None

\* "Create or get reminder record": the id of the unsent row of the car
get_reminder(car_id) ==
    IF UnsentReminders(car_id) = {} THEN None
    ELSE Some(First(UnsentReminders(car_id)))

----------------------------------------------------------------------------
(* Initial state: shops 1 and 2 are swept, shop 3 has SMS disabled; cars 1 *)
(* and 2 (shop 1) are due (two visits 60 days and 10000 km apart, 99000 km *)
(* now, service every 10000 km), car 3 (shop 2) is not: its second order   *)
(* is still in progress, so it has one visit and no predicted mileage.     *)
(* A sweep record holds the locals of one execution of    *)
(* check_service_reminders: shops and cars are the parts of the two lists  *)
(* not yet iterated (head = current element), todo the items of            *)
(* cars_needing_reminders not yet sent.  selected, swept, listed and       *)
(* evaluated record what the execution has done so far: the shops returned *)
(* by the shop query, the shops whose sweep was started, the cars returned *)
(* by the car queries, the cars whose loop body was entered and the cars    *)
(* for which needs_service_reminder was called.                            *)

\* No invoice, no appointment and no account: the reminder engine and the
\* work-order requests read none of these tables
NoOffice ==
    /\ invoices = <<>>
    /\ appointments = <<>>
    /\ staff = <<>>
    /\ customers = <<>>
    /\ tokens = {}

Idle ==
    [pc |-> "idle", job |-> 0, shops |-> <<>>, cars |-> <<>>,
     cars_needing_reminders |-> <<>>, todo |-> <<>>,
     predicted_km |-> None, service_due_km |-> None,
     error |-> FALSE, selected |-> {}, swept |-> {}, listed |-> {}, evaluated |-> {},
     invoked |-> {}]

Init ==
    /\ now = 0
    /\ ticks = 0
    /\ shops = [s \in ShopIds |->
                  [is_active |-> TRUE, sms_enabled |-> (s # 3)]]
    /\ cars = [c \in CarIds |->
                 [shop_id |-> IF c = 3 THEN 2 ELSE 1,
                  current_mileage |-> Some(IF c = 3 THEN 95000 ELSE 99000),
                  service_interval_km |-> 10000]]
    /\ work_orders =
         [w \in 1 .. 2 * Cardinality(CarIds) |->
            [car_id |-> (w + 1) \div 2,
             status |-> IF w = 6 THEN "in_progress" ELSE "done",
             mileage_at_intake |-> Some(IF w % 2 = 1 THEN 85000 ELSE 95000),
             created_at |-> IF w % 2 = 1 THEN 0 - 60 ELSE 0,
             started_at |-> Some(IF w % 2 = 1 THEN 0 - 60 ELSE 0),
             completed_at |-> IF w = 6 THEN None
                              ELSE Some(IF w % 2 = 1 THEN 0 - 60 ELSE 0)]]
    /\ reminders = <<>>
    /\ sms_log = {}
    /\ sweep = [p \in Procs |-> Idle]
    /\ jobs = 0
    /\ updates = 0
    /\ NoOffice

----------------------------------------------------------------------------
(* check_service_reminders and MileageService.check_all_cars_for_reminders *)

\* Loop control: the end of the car loop returns cars_needing_reminders to
\* the job, the end of the send loop moves to the next shop, the end of the
\* shop loop leaves the job (finally: db.close()).
Advance(s) ==
    LET a == IF s.pc = "car" /\ s.cars = <<>>
             THEN [s EXCEPT !.pc = "send", !.todo = s.cars_needing_reminders]
             ELSE s
        b == IF a.pc = "send" /\ a.todo = <<>>
             THEN [a EXCEPT !.pc = "shop", !.shops = Tail(a.shops)]
             ELSE a
    IN IF b.pc = "shop" /\ b.shops = <<>> THEN [b EXCEPT !.pc = "idle"] ELSE b

\* except Exception as e: logger.error(...); finally: db.close()
Abort(s) == [s EXCEPT !.pc = "idle", !.error = TRUE]

\* The trigger fires: the job starts and reads the shops to sweep.
Trigger(p) ==
    /\ sweep[p].pc = "idle"
    /\ jobs < MaxJobs
    /\ jobs' = jobs + 1
    /\ sweep' = [sweep EXCEPT ![p] =
                   Advance([Idle EXCEPT !.pc = "shop",
                                        !.job = jobs + 1,
                                        !.shops = ActiveSmsShops,
                                        !.selected = Range(ActiveSmsShops)])]
    /\ UNCHANGED <<office, now, ticks, shops, cars, work_orders, reminders, sms_log, updates>>

\* for shop in shops: check_all_cars_for_reminders(shop.id) reads the cars
BeginShop(p) ==
    /\ sweep[p].pc = "shop"
    /\ sweep[p].shops # <<>>
    /\ LET shop_id == Head(sweep[p].shops)
           found == CarsOfShop(shop_id)
       IN sweep' = [sweep EXCEPT ![p] =
                      Advance([@ EXCEPT !.pc = "car",
                                        !.cars = found,
                                        !.cars_needing_reminders = <<>>,
                                        !.swept = @ \cup {shop_id},
                                        !.listed = @ \cup Range(found)])]
    /\ UNCHANGED <<office, now, ticks, shops, cars, work_orders, reminders, sms_log, jobs, updates>>

Item(car_id, predicted_km, service_due_km, reminder_id) ==
    [car |-> car_id, predicted_mileage |-> predicted_km,
     service_due_mileage |-> service_due_km, reminder_id |-> reminder_id]

\* What the loop body does with a car for which the unsent row `reminder_id`
\* was found: the row is used as it is.
ReuseReminder(s, car_id, predicted_km, service_due_km, reminder_id) ==
    [s EXCEPT !.cars = Tail(@),
              !.cars_needing_reminders =
                  Append(@, Item(car_id, predicted_km, service_due_km, reminder_id))]

\* a loop body without the check for a recent reminder
SkipRecent_never(car_id) == FALSE

\* Whether the loop body skips the car (continue)
SkipRecent(car_id) == RecentReminders(car_id) # {}

\* Loop body up to the "create or get" query: the reads of one car.  A car
\* with a recent reminder is skipped before needs_service_reminder is called.
EvalCar(p) ==
    /\ sweep[p].pc = "car"
    /\ \/ SkipRecent(Head(sweep[p].cars))
       \/ ~IsRaise(needs_service_reminder(Head(sweep[p].cars)))
    /\ LET car_id == Head(sweep[p].cars)
           s == [sweep[p] EXCEPT
                   !.evaluated = @ \cup {car_id},
                   !.invoked = IF SkipRecent(car_id) THEN @ ELSE @ \cup {car_id}]
           res == needs_service_reminder(car_id)
       IN sweep' = [sweep EXCEPT ![p] =
            IF SkipRecent(car_id) \/ ~res[1]
            THEN Advance([s EXCEPT !.cars = Tail(@)])
            ELSE IF get_reminder(car_id) # None
            THEN Advance(ReuseReminder(s, car_id, Val(res[2]), Val(res[3]),
                                       Val(get_reminder(car_id))))
            ELSE [s EXCEPT !.pc = "create",
                           !.predicted_km = res[2],
                           !.service_due_km = res[3]]]
    /\ UNCHANGED <<office, now, ticks, shops, cars, work_orders, reminders, sms_log, jobs, updates>>

\* needs_service_reminder raises: the exception leaves both loops and is
\* caught by the job's handler
EvalRaise(p) ==
    /\ sweep[p].pc = "car"
    /\ ~SkipRecent(Head(sweep[p].cars))
    /\ IsRaise(needs_service_reminder(Head(sweep[p].cars)))
    /\ sweep' = [sweep EXCEPT ![p] =
                   Abort([@ EXCEPT !.evaluated = @ \cup {Head(sweep[p].cars)},
                                   !.invoked = @ \cup {Head(sweep[p].cars)}])]
    /\ UNCHANGED <<office, now, ticks, shops, cars, work_orders, reminders, sms_log, jobs, updates>>

\* a row that is created as already sent
NewReminder_sent(car_id, predicted_km, service_due_km) ==
    [car_id |-> car_id,
     predicted_mileage |-> predicted_km,
     service_due_mileage |-> service_due_km,
     reminder_sent |-> TRUE,
     reminder_sent_at |-> None,
     created_at |-> now]

\* ServiceReminder(...); db.add; db.commit; db.refresh
NewReminder(car_id, predicted_km, service_due_km) ==
    [car_id |-> car_id,
     predicted_mileage |-> predicted_km,
     service_due_mileage |-> service_due_km,
     reminder_sent |-> FALSE,
     reminder_sent_at |-> None,
     created_at |-> now]

\* if not reminder: the row is inserted
CreateReminder(p) ==
    /\ sweep[p].pc = "create"
    /\ LET car_id == Head(sweep[p].cars)
           s == sweep[p]
       IN /\ reminders' = Append(reminders,
                              NewReminder(car_id, Val(s.predicted_km), Val(s.service_due_km)))
          /\ sweep' = [sweep EXCEPT ![p] =
                Advance([ReuseReminder(s, car_id, Val(s.predicted_km),
                                       Val(s.service_due_km), Len(reminders) + 1)
                           EXCEPT !.pc = "car",
                                  !.predicted_km = None,
                                  !.service_due_km = None])]
    /\ UNCHANGED <<office, now, ticks, shops, cars, work_orders, sms_log, jobs, updates>>

\* A query or the commit of the loop body raises (store unavailable): the
\* exception leaves both loops and is caught by the job's handler.
RaiseInCar(p) ==
    /\ sweep[p].pc \in {"car", "create"}
    /\ sweep' = [sweep EXCEPT ![p] =
                   Abort([@ EXCEPT !.evaluated = @ \cup {Head(sweep[p].cars)}])]
    /\ UNCHANGED <<office, now, ticks, shops, cars, work_orders, reminders, sms_log, jobs, updates>>

----------------------------------------------------------------------------
(* The send loop of check_service_reminders and the sink *)

\* SMSService._log_sms: one sms_logs row (shop.sms_usage_count is the number
\* of rows of the shop); job, car_id and reminder_id tell the calls apart.
LogRow(s, status) ==
    [shop_id |-> Head(s.shops),
     message_type |-> "service_reminder",
     status |-> status,
     sent_at |-> now,
     job |-> s.job,
     car_id |-> Head(s.todo).car,
     reminder_id |-> Head(s.todo).reminder_id]

sms_usage_count(shop_id) == Cardinality({l \in sms_log : l.shop_id = shop_id})

\* send_service_reminder_sms returns True
SendOk(p) ==
    /\ sweep[p].pc = "send"
    /\ sms_log' = sms_log \cup {LogRow(sweep[p], "sent")}
    /\ sweep' = [sweep EXCEPT ![p].pc = "mark"]
    /\ UNCHANGED <<office, now, ticks, shops, cars, work_orders, reminders, jobs, updates>>

\* a send loop that stops at the first failure
AfterFailure_break(s) == Advance([s EXCEPT !.todo = <<>>])

\* The job after send_service_reminder_sms returned False: logger.error and
\* the next item
AfterFailure(s) == Advance([s EXCEPT !.todo = Tail(@)])

\* send_service_reminder_sms returns False (client not configured, or
\* TwilioRestException)
SendFail(p) ==
    /\ sweep[p].pc = "send"
    /\ sms_log' = sms_log \cup {LogRow(sweep[p], "failed")}
    /\ sweep' = [sweep EXCEPT ![p] = AfterFailure(@)]
    /\ UNCHANGED <<office, now, ticks, shops, cars, work_orders, reminders, jobs, updates>>

\* send_service_reminder_sms raises (an exception that is not a
\* TwilioRestException): nothing is delivered and nothing is logged
SendRaise(p) ==
    /\ sweep[p].pc = "send"
    /\ sweep' = [sweep EXCEPT ![p] = Abort(@)]
    /\ UNCHANGED <<office, now, ticks, shops, cars, work_orders, reminders, sms_log, jobs, updates>>

\* a mark_reminder_sent that deletes the row
mark_reminder_sent_delete(reminder_id) ==
    IF reminder_id \in DOMAIN reminders
    THEN SubSeq(reminders, 1, reminder_id - 1)
            \o SubSeq(reminders, reminder_id + 1, Len(reminders))
    ELSE reminders

\* a mark_reminder_sent that sets the flag and not the timestamp
mark_reminder_sent_flag_only(reminder_id) ==
    IF reminder_id \in DOMAIN reminders
    THEN [reminders EXCEPT ![reminder_id] = [@ EXCEPT !.reminder_sent = TRUE]]
    ELSE reminders

\* MileageService.mark_reminder_sent: the table after the call
mark_reminder_sent(reminder_id) ==
    IF reminder_id \in DOMAIN reminders
    THEN [reminders EXCEPT ![reminder_id] =
            [@ EXCEPT !.reminder_sent = TRUE, !.reminder_sent_at = Some(now)]]
    ELSE reminders

\* if success: mileage_service.mark_reminder_sent(reminder_id)
MarkSent(p) ==
    /\ sweep[p].pc = "mark"
    /\ reminders' = mark_reminder_sent(Head(sweep[p].todo).reminder_id)
    /\ sweep' = [sweep EXCEPT ![p] = Advance([@ EXCEPT !.pc = "send", !.todo = Tail(@)])]
    /\ UNCHANGED <<office, now, ticks, shops, cars, work_orders, sms_log, jobs, updates>>

----------------------------------------------------------------------------
(* The environment: the clock and the car update endpoint *)

\* Days pass between two firings of the trigger (the job itself ends within
\* the day it started; Init is the day of the first firing).
Tick(d) ==
    /\ ticks < MaxTicks
    /\ 0 < jobs /\ jobs < MaxJobs
    /\ \A p \in Procs : sweep[p].pc = "idle"
    /\ ticks' = ticks + 1
    /\ now' = now + d
    /\ UNCHANGED <<office, shops, cars, work_orders, reminders, sms_log, sweep, jobs, updates>>

\* PUT /cars/{car_id}: every field that the body gives is written to the row
\* (CarUpdate.dict(exclude_unset=True); a field given as null is written as
\* NULL)
update_car(car_id, update_data) ==
    /\ updates < MaxUpdates
    /\ car_id \in DOMAIN cars
    /\ updates' = updates + 1
    /\ LET given == DOMAIN update_data
       IN cars' = [cars EXCEPT ![car_id] =
             [@ EXCEPT
                !.current_mileage = IF "current_mileage" \in given
                                    THEN update_data.current_mileage ELSE @,
                !.service_interval_km = IF "service_interval_km" \in given
                                        THEN update_data.service_interval_km
                                        ELSE @]]
    /\ UNCHANGED <<office, now, ticks, shops, work_orders, reminders, sms_log, sweep, jobs>>

Environment ==
    \/ \E d \in TickSteps : Tick(d)
    \/ \E c \in UpdatedCars, m \in Mileages :
            update_car(c, [current_mileage |-> Some(m)])

Job(p) ==
    \/ Trigger(p)
    \/ BeginShop(p)
    \/ EvalCar(p)
    \/ CreateReminder(p)
    \/ RaiseInCar(p)
    \/ SendOk(p)
    \/ SendFail(p)
    \/ SendRaise(p)
    \/ MarkSent(p)

\* One execution context: firings of the trigger run one after the other
Next == Job(1) \/ Environment

Spec == Init /\ [][Next]_vars

\* Two execution contexts: a firing may overlap the previous one
NextConc == \E p \in Procs : Job(p)

SpecConc == Init /\ [][NextConc]_vars

----------------------------------------------------------------------------
(* The work-order requests: the visit history of a car is written by       *)
(* create_work_order and update_work_order.  Car 1 starts without a        *)
(* history and receives the requests; cars 2 and 3 have two visits 100     *)
(* days apart, car 3 also a completed order without a reading between      *)
(* them, and receive none.  Time passes between requests.                  *)

VisitCars == {1}
VisitMileages == {80000, 90000}
VisitDays == {0, 60, 120}

\* WorkOrderUpdate.dict(exclude_unset=True): the fields the request gives
UpdateData ==
    {[status |-> "done"]}
        \cup {[mileage_at_intake |-> Some(m)] : m \in VisitMileages}

\* The rows of cars 2 and 3 before the first request
seed_orders ==
    [w \in 1..5 |->
        LET car_id == IF w <= 2 THEN 2 ELSE 3
            day == IF w = 5 THEN 0 - 50 ELSE IF w % 2 = 1 THEN 0 - 100 ELSE 0
        IN  [car_id |-> car_id, status |-> "done",
             mileage_at_intake |->
                 IF w = 5 THEN None
                 ELSE Some((IF car_id = 2 THEN 77000 ELSE 70000)
                               + (IF day = 0 THEN 10000 ELSE 0)),
             created_at |-> day,
             started_at |-> Some(day),
             completed_at |-> Some(day)]]

\* The orders that receive update requests
VisitOrders == {w \in DOMAIN work_orders : work_orders[w].car_id \in VisitCars}

InitVisits ==
    /\ now = 0
    /\ ticks = 0
    /\ shops = [s \in ShopIds |-> [is_active |-> TRUE, sms_enabled |-> s # 3]]
    /\ cars = [c \in CarIds |->
                 [shop_id |-> IF c = 3 THEN 2 ELSE 1,
                  current_mileage |->
                      Some(IF c = 1 THEN 85000 ELSE IF c = 2 THEN 97000 ELSE 90000),
                  service_interval_km |-> IF c = 1 THEN 5000 ELSE 10000]]
    /\ work_orders = seed_orders
    /\ reminders = <<>>
    /\ sms_log = {}
    /\ sweep = [p \in Procs |-> Idle]
    /\ jobs = 0
    /\ updates = 0
    /\ NoOffice

\* POST /work-orders: the car belongs to the shop of the request; the row
\* gets the default status and the creation time
create_work_order(car_id, mileage_at_intake) ==
    /\ Len(work_orders) < Len(seed_orders) + MaxOrders
    /\ car_id \in DOMAIN cars
    /\ work_orders' = Append(work_orders,
            [car_id |-> car_id, status |-> "created",
             mileage_at_intake |-> mileage_at_intake,
             created_at |-> now, started_at |-> None, completed_at |-> None])
    /\ UNCHANGED <<office, now, ticks, shops, cars, reminders, sms_log, sweep, jobs, updates>>

\* new_mileage > car.current_mileage raises TypeError when the column is NULL
update_car_mileage_raises(car_id) ==
    car_id \in DOMAIN cars /\ cars[car_id].current_mileage = None

\* an update of the mileage without the comparison
update_car_mileage_always(car_id, new_mileage) ==
    IF car_id \in DOMAIN cars
    THEN [cars EXCEPT ![car_id].current_mileage = Some(new_mileage)]
    ELSE cars

\* MileageService.update_car_mileage: the table cars after the call
update_car_mileage(car_id, new_mileage) ==
    IF car_id \in DOMAIN cars /\ new_mileage > Val(cars[car_id].current_mileage)
    THEN [cars EXCEPT ![car_id].current_mileage = Some(new_mileage)]
    ELSE cars

\* a start that is stamped by every request to in_progress
SetsStartedAt_always(status, wo) == status = "in_progress"

\* update_data.status == IN_PROGRESS and not work_order.started_at
SetsStartedAt(status, wo) == status = "in_progress" /\ wo.started_at = None

\* PUT /work-orders/{id}
update_work_order(work_order_id, update_data) ==
    /\ work_order_id \in DOMAIN work_orders
    /\ LET given == DOMAIN update_data
           wo == work_orders[work_order_id]
           set == [wo EXCEPT
                     !.status = IF "status" \in given
                                THEN update_data.status ELSE @,
                     !.mileage_at_intake = IF "mileage_at_intake" \in given
                                           THEN update_data.mileage_at_intake
                                           ELSE @]
           status == IF "status" \in given THEN update_data.status ELSE "none"
           starts == SetsStartedAt(status, set)
           completes == ~starts /\ status = "done" /\ set.completed_at = None
           reads == /\ completes
                    /\ set.mileage_at_intake # None
                    /\ Val(set.mileage_at_intake) # 0
       IN  IF reads /\ update_car_mileage_raises(set.car_id)
           THEN \* the exception ends the request before its commit
                UNCHANGED <<office, work_orders, cars>>
           ELSE /\ work_orders' = [work_orders EXCEPT ![work_order_id] =
                       [set EXCEPT
                          !.started_at = IF starts THEN Some(now) ELSE @,
                          !.completed_at = IF completes THEN Some(now) ELSE @]]
                /\ cars' = IF reads
                            THEN update_car_mileage(set.car_id, Val(set.mileage_at_intake))
                            ELSE cars
    /\ UNCHANGED <<office, now, ticks, shops, reminders, sms_log, sweep, jobs, updates>>

\* Time passes between two requests: the next request arrives on day d
Elapse(d) ==
    /\ d > now
    /\ now' = d
    /\ UNCHANGED <<office, ticks, shops, cars, work_orders, reminders, sms_log, sweep, jobs, updates>>

NextVisits ==
    \/ \E c \in VisitCars, m \in VisitMileages : create_work_order(c, Some(m))
    \/ \E w \in VisitOrders, u \in UpdateData : update_work_order(w, u)
    \/ \E d \in VisitDays : Elapse(d)

SpecVisits == InitVisits /\ [][NextVisits]_vars

----------------------------------------------------------------------------
(* The life of a work order: two orders of car 1 (85000 km now), one       *)
(* without a reading and one with a reading above the car's mileage,       *)
(* receive every kind of update request, on one of two days.               *)

OrderDays == {0, 60}

\* WorkOrderUpdate.dict(exclude_unset=True): the bodies of the requests
OrderUpdates ==
    {[status |-> s] : s \in {"diagnosing", "in_progress", "done"}}
        \cup {[mileage_at_intake |-> Some(80000)]}
        \cup {[status |-> "done", mileage_at_intake |-> Some(80000)]}

InitOrders ==
    /\ now = 0
    /\ ticks = 0
    /\ shops = [s \in ShopIds |-> [is_active |-> TRUE, sms_enabled |-> s # 3]]
    /\ cars = [c \in CarIds |->
                 [shop_id |-> 1, current_mileage |-> Some(85000),
                  service_interval_km |-> 10000]]
    /\ work_orders =
         [w \in 1..2 |->
            [car_id |-> 1, status |-> "created",
             mileage_at_intake |-> IF w = 1 THEN None ELSE Some(90000),
             created_at |-> 0, started_at |-> None, completed_at |-> None]]
    /\ reminders = <<>>
    /\ sms_log = {}
    /\ sweep = [p \in Procs |-> Idle]
    /\ jobs = 0
    /\ updates = 0
    /\ NoOffice

NextOrders ==
    \/ \E w \in DOMAIN work_orders, u \in OrderUpdates : update_work_order(w, u)
    \/ \E d \in OrderDays : Elapse(d)

SpecOrders == InitOrders /\ [][NextOrders]_vars

----------------------------------------------------------------------------
(* The sweep over a fleet that holds every kind of car and shop: shops 1    *)
(* and 2 are swept, shop 3 is either inactive or has SMS disabled.  Cars 1 *)
(* and 2 (shop 1) are due; car 3 has the same history and is either a car  *)
(* of shop 1 with service interval 0 or a car of shop 3; shop 2 has no     *)
(* car.  Car 2                                                             *)
(* receives the update_car requests: a body that sets current_mileage to   *)
(* null or service_interval_km to 0 (CarUpdate validates neither).         *)

fleet_orders ==
    [w \in 1 .. 2 * Cardinality(CarIds) |->
        LET day == IF w % 2 = 1 THEN 0 - 60 ELSE 0
        IN  [car_id |-> (w + 1) \div 2,
             status |-> "done",
             mileage_at_intake |-> Some(IF w % 2 = 1 THEN 85000 ELSE 95000),
             created_at |-> day,
             started_at |-> Some(day),
             completed_at |-> Some(day)]]

\* the rows that car 3 may be
FleetCar3 ==
    {[shop_id |-> 1, current_mileage |-> Some(99000), service_interval_km |-> 0],
     [shop_id |-> 3, current_mileage |-> Some(99000), service_interval_km |-> 10000]}

\* the rows that shop 3 may be
FleetShop3 ==
    {[is_active |-> FALSE, sms_enabled |-> TRUE],
     [is_active |-> TRUE, sms_enabled |-> FALSE]}

FleetUpdatedCars == {2}

\* CarUpdate.dict(exclude_unset=True): the bodies of the requests
CarUpdates == {[current_mileage |-> None], [service_interval_km |-> 0]}

InitFleet ==
    /\ now = 0
    /\ ticks = 0
    /\ \E row \in FleetShop3 :
          shops = [s \in ShopIds |->
                     IF s = 3 THEN row
                     ELSE [is_active |-> TRUE, sms_enabled |-> TRUE]]
    /\ \E row \in FleetCar3 :
          cars = [c \in CarIds |->
                    IF c = 3 THEN row
                    ELSE [shop_id |-> 1, current_mileage |-> Some(99000),
                          service_interval_km |-> 10000]]
    /\ work_orders = fleet_orders
    /\ reminders = <<>>
    /\ sms_log = {}
    /\ sweep = [p \in Procs |-> Idle]
    /\ jobs = 0
    /\ updates = 0
    /\ NoOffice

EnvironmentFleet ==
    \/ \E d \in TickSteps : Tick(d)
    \/ \E c \in FleetUpdatedCars, u \in CarUpdates : update_car(c, u)

\* the job with the exceptions of the predictor
JobFleet(p) == Job(p) \/ EvalRaise(p)

NextFleet == JobFleet(1) \/ EnvironmentFleet

SpecFleet == InitFleet /\ [][NextFleet]_vars

----------------------------------------------------------------------------
(* The job that keeps firing: cars 1 and 2 of shop 1 and car 3 of shop 2   *)
(* (both shops active, SMS enabled) are due; the day does not matter       *)
(* before the first reminder is sent.  The one request of the environment  *)
(* is an update_car that sets the mileage of car 1 to null.  The firings   *)
(* are not counted.  The store is available: no query or commit fails; the *)
(* sink returns True, returns False or raises.                             *)

LiveUpdates == {[current_mileage |-> None]}

InitLive ==
    /\ now = 0
    /\ ticks = 0
    /\ shops = [s \in ShopIds |-> [is_active |-> TRUE, sms_enabled |-> s \in {1, 2}]]
    /\ cars = [c \in CarIds |->
                 [shop_id |-> IF c = 3 THEN 2 ELSE 1,
                  current_mileage |-> Some(99000),
                  service_interval_km |-> 10000]]
    /\ work_orders = fleet_orders
    /\ reminders = <<>>
    /\ sms_log = {}
    /\ sweep = [p \in Procs |-> Idle]
    /\ jobs = 0
    /\ updates = 0
    /\ NoOffice

\* The trigger fires again (CronTrigger: every day)
TriggerLive(p) ==
    /\ sweep[p].pc = "idle"
    /\ sweep' = [sweep EXCEPT ![p] =
                   Advance([Idle EXCEPT !.pc = "shop",
                                        !.job = 1,
                                        !.shops = ActiveSmsShops,
                                        !.selected = Range(ActiveSmsShops)])]
    /\ UNCHANGED <<office, now, ticks, shops, cars, work_orders, reminders, sms_log,
                   jobs, updates>>

\* the sink is called for the car and returns True
SendOkFor(p, car_id) == SendOk(p) /\ Head(sweep[p].todo).car = car_id

NextLive ==
    \/ TriggerLive(1)
    \/ BeginShop(1)
    \/ EvalCar(1)
    \/ EvalRaise(1)
    \/ CreateReminder(1)
    \/ SendOk(1)
    \/ SendFail(1)
    \/ SendRaise(1)
    \/ MarkSent(1)
    \/ \E u \in LiveUpdates : update_car(1, u)

\* The scheduler fires the trigger again and again and the thread of the job
\* goes on until the job returns; the sink returns or raises; for every car,
\* a sink that is called again and again for the car returns True at some
\* time.
LiveFairness ==
    /\ WF_vars(TriggerLive(1))
    /\ WF_vars(BeginShop(1))
    /\ WF_vars(EvalCar(1))
    /\ WF_vars(EvalRaise(1))
    /\ WF_vars(CreateReminder(1))
    /\ WF_vars(MarkSent(1))
    /\ WF_vars(SendOk(1) \/ SendFail(1) \/ SendRaise(1))
    /\ \A c \in CarIds : SF_vars(SendOkFor(1, c))

SpecLive == InitLive /\ [][NextLive]_vars /\ LiveFairness

----------------------------------------------------------------------------
(* The invoices: three draft invoices of shop 1 receive update requests of *)
(* two members of the staff, on one of two days.                           *)

InvoiceIds == {1, 2, 3}
StaffIds == {1, 2}

\* InvoiceUpdate.dict(exclude_unset=True): the bodies of the requests
InvoiceUpdates ==
    {[status |-> s] : s \in {"draft", "finalized", "paid"}}
        \cup {[payment_method |-> Some("cash")]}
        \cup {[status |-> "paid", payment_method |-> Some("card")]}

InitInvoices ==
    /\ now = 0
    /\ ticks = 0
    /\ shops = [s \in ShopIds |-> [is_active |-> TRUE, sms_enabled |-> s # 3]]
    /\ cars = [c \in CarIds |->
                 [shop_id |-> 1, current_mileage |-> Some(85000),
                  service_interval_km |-> 10000]]
    /\ work_orders =
         [w \in InvoiceIds |->
            [car_id |-> w, status |-> "done", mileage_at_intake |-> None,
             created_at |-> 0, started_at |-> Some(0), completed_at |-> Some(0)]]
    /\ reminders = <<>>
    /\ sms_log = {}
    /\ sweep = [p \in Procs |-> Idle]
    /\ jobs = 0
    /\ updates = 0
    /\ invoices =
         [i \in InvoiceIds |->
            [shop_id |-> 1, work_order_id |-> i, customer_id |-> i,
             status |-> "draft", payment_method |-> None, paid_at |-> None,
             finalized_at |-> None, finalized_by_staff_id |-> None]]
    /\ appointments = <<>>
    /\ staff = [s \in StaffIds |-> [shop_id |-> 1, role |-> "receptionist"]]
    /\ customers = [c \in InvoiceIds |-> [shop_id |-> 1]]
    /\ tokens = {}

\* SMSService._log_sms for send_car_ready_sms: one sms_logs row
CarReadyRow(invoice_id, status) ==
    [shop_id |-> invoices[invoice_id].shop_id,
     message_type |-> "car_ready",
     status |-> status,
     sent_at |-> now,
     invoice_id |-> invoice_id]

\* PUT /invoices/{invoice_id} by current_staff; delivered tells whether the
\* sink, if it is called, returns True
update_invoice(invoice_id, update_data, current_staff, delivered) ==
    /\ invoice_id \in DOMAIN invoices
    /\ current_staff \in DOMAIN staff
    /\ invoices[invoice_id].shop_id = staff[current_staff].shop_id
    /\ LET given == DOMAIN update_data
           status == IF "status" \in given THEN update_data.status ELSE "none"
           invoice == invoices[invoice_id]
           \* for field, value in update_data.dict(exclude_unset=True).items()
           set == [invoice EXCEPT
                     !.status = IF "status" \in given THEN update_data.status ELSE @,
                     !.payment_method = IF "payment_method" \in given
                                        THEN update_data.payment_method ELSE @]
           \* the two tests read the status of the row after the loop above
           finalizes == status = "finalized" /\ set.status = "draft"
           pays == status = "paid" /\ set.status # "paid"
           sends == /\ pays
                    /\ set.customer_id \in DOMAIN customers
                    /\ set.work_order_id \in DOMAIN work_orders
                    /\ work_orders[set.work_order_id].car_id \in DOMAIN cars
       IN IF invoice.status \in {"finalized", "paid"} /\ status # "paid"
          THEN \* HTTP 400
               UNCHANGED <<invoices, sms_log>>
          ELSE /\ invoices' = [invoices EXCEPT ![invoice_id] =
                      [set EXCEPT
                         !.finalized_at = IF finalizes THEN Some(now) ELSE @,
                         !.finalized_by_staff_id =
                             IF finalizes THEN Some(current_staff) ELSE @,
                         !.paid_at = IF pays THEN Some(now) ELSE @]]
               /\ sms_log' = IF sends
                              THEN sms_log \cup
                                     {CarReadyRow(invoice_id,
                                         IF delivered THEN "sent" ELSE "failed")}
                              ELSE sms_log
    /\ UNCHANGED <<now, ticks, shops, cars, work_orders, reminders, sweep, jobs,
                   updates, appointments, staff, customers, tokens>>

NextInvoices ==
    \/ \E i \in InvoiceIds, u \in InvoiceUpdates, s \in StaffIds, ok \in BOOLEAN :
            update_invoice(i, u, s, ok)
    \/ \E d \in OrderDays : Elapse(d)

SpecInvoices == InitInvoices /\ [][NextInvoices]_vars

----------------------------------------------------------------------------
(* The appointments: two requested appointments of shop 1 receive update   *)
(* requests, one after the other, on one of two days.  The sink returns    *)
(* True, returns False or raises before anything is delivered.             *)

AppointmentIds == {1, 2}
SinkOutcomes == {"sent", "failed", "raise"}

\* AppointmentUpdate.dict(exclude_unset=True): the bodies of the requests
AppointmentUpdates ==
    {[status |-> s] : s \in {"requested", "confirmed", "arrived", "rejected"}}
        \cup {[confirmed_date |-> Some(60)]}
        \cup {[status |-> "confirmed", confirmed_date |-> Some(60)]}

InitAppointments ==
    /\ now = 0
    /\ ticks = 0
    /\ shops = [s \in ShopIds |-> [is_active |-> TRUE, sms_enabled |-> s # 3]]
    /\ cars = [c \in CarIds |->
                 [shop_id |-> 1, current_mileage |-> Some(85000),
                  service_interval_km |-> 10000]]
    /\ work_orders = <<>>
    /\ reminders = <<>>
    /\ sms_log = {}
    /\ sweep = [p \in Procs |-> Idle]
    /\ jobs = 0
    /\ updates = 0
    /\ invoices = <<>>
    /\ appointments =
         [a \in AppointmentIds |->
            [shop_id |-> 1, customer_id |-> a, status |-> "requested",
             confirmed_date |-> None, confirmed_by_staff_id |-> None,
             sms_sent |-> FALSE, sms_sent_at |-> None]]
    /\ staff = [s \in StaffIds |-> [shop_id |-> 1, role |-> "receptionist"]]
    /\ customers = [c \in AppointmentIds |-> [shop_id |-> 1]]
    /\ tokens = {}

\* SMSService._log_sms for send_appointment_confirmed_sms: one sms_logs row
ConfirmedRow(appointment_id, status) ==
    [shop_id |-> appointments[appointment_id].shop_id,
     message_type |-> "appointment_confirmed",
     status |-> status,
     sent_at |-> now,
     appointment_id |-> appointment_id]

\* a confirmation that is sent whether or not one was sent before
SendsConfirmation_again(appointment) ==
    appointment.customer_id \in DOMAIN customers

\* if customer and not appointment.sms_sent
SendsConfirmation(appointment) ==
    appointment.customer_id \in DOMAIN customers /\ ~appointment.sms_sent

\* PUT /appointments/{appointment_id} by current_staff; outcome is what the
\* sink does if it is called
update_appointment(appointment_id, update_data, current_staff, outcome) ==
    /\ appointment_id \in DOMAIN appointments
    /\ current_staff \in DOMAIN staff
    /\ appointments[appointment_id].shop_id = staff[current_staff].shop_id
    /\ LET given == DOMAIN update_data
           status == IF "status" \in given THEN update_data.status ELSE "none"
           old_status == appointments[appointment_id].status
           set == [appointments[appointment_id] EXCEPT
                     !.status = IF "status" \in given THEN update_data.status ELSE @,
                     !.confirmed_date = IF "confirmed_date" \in given
                                        THEN update_data.confirmed_date ELSE @]
           confirms == status = "confirmed" /\ old_status = "requested"
           sends == confirms /\ SendsConfirmation(set)
       IN IF sends /\ outcome = "raise"
          THEN \* the exception ends the request before its commit
               UNCHANGED <<appointments, sms_log>>
          ELSE /\ appointments' = [appointments EXCEPT ![appointment_id] =
                      [set EXCEPT
                         !.confirmed_by_staff_id =
                             IF confirms THEN Some(current_staff) ELSE @,
                         !.sms_sent = IF sends THEN TRUE ELSE @,
                         !.sms_sent_at = IF sends THEN Some(now) ELSE @]]
               /\ sms_log' = IF sends
                              THEN sms_log \cup {ConfirmedRow(appointment_id, outcome)}
                              ELSE sms_log
    /\ UNCHANGED <<now, ticks, shops, cars, work_orders, reminders, sweep, jobs,
                   updates, invoices, staff, customers, tokens>>

NextAppointments ==
    \/ \E a \in AppointmentIds, u \in AppointmentUpdates, s \in StaffIds,
           o \in SinkOutcomes : update_appointment(a, u, s, o)
    \/ \E d \in OrderDays : Elapse(d)

SpecAppointments == InitAppointments /\ [][NextAppointments]_vars

----------------------------------------------------------------------------
(* The accounts and the login: members of staff and customers are created  *)
(* (the ids of each table count from 1), log in and present their tokens.  *)

StaffRoles == {"manager", "mechanic"}
AccountShops == {1, 2}

\* str(n) of create_access_token, for the ids of the model
Digits == <<"1", "2", "3", "4">>

\* int(user_id_str) of decode_token
int(s) == CHOOSE n \in DOMAIN Digits : Digits[n] = s

InitAuth ==
    /\ now = 0
    /\ ticks = 0
    /\ shops = [s \in ShopIds |-> [is_active |-> TRUE, sms_enabled |-> s # 3]]
    /\ cars = <<>>
    /\ work_orders = <<>>
    /\ reminders = <<>>
    /\ sms_log = {}
    /\ sweep = [p \in Procs |-> Idle]
    /\ jobs = 0
    /\ updates = 0
    /\ invoices = <<>>
    /\ appointments = <<>>
    /\ staff = <<>>
    /\ customers = <<>>
    /\ tokens = {}

\* POST /staff: a new row, with the next id of the table staff
create_staff(role, shop_id) ==
    /\ Len(staff) < MaxAccounts
    /\ staff' = Append(staff, [shop_id |-> shop_id, role |-> role])
    /\ UNCHANGED <<now, ticks, shops, cars, work_orders, reminders, sms_log, sweep,
                   jobs, updates, invoices, appointments, customers, tokens>>

\* POST /customers: a new row, with the next id of the table customers
register_customer(shop_id) ==
    /\ Len(customers) < MaxAccounts
    /\ customers' = Append(customers, [shop_id |-> shop_id])
    /\ UNCHANGED <<now, ticks, shops, cars, work_orders, reminders, sms_log, sweep,
                   jobs, updates, invoices, appointments, staff, tokens>>

\* create_access_token: the claims of the token (sub is a string)
create_access_token(sub, role, shop_id) ==
    [sub |-> Digits[sub], role |-> role, shop_id |-> shop_id]

\* POST /auth/staff/login with the credentials of the member of staff
staff_login(staff_id) ==
    /\ staff_id \in DOMAIN staff
    /\ tokens' = tokens \cup
           {create_access_token(staff_id, staff[staff_id].role, staff[staff_id].shop_id)}
    /\ UNCHANGED <<now, ticks, shops, cars, work_orders, reminders, sms_log, sweep,
                   jobs, updates, invoices, appointments, staff, customers>>

\* POST /auth/customer/login with the credentials of the customer
customer_login(customer_id) ==
    /\ customer_id \in DOMAIN customers
    /\ tokens' = tokens \cup
           {create_access_token(customer_id, "customer", customers[customer_id].shop_id)}
    /\ UNCHANGED <<now, ticks, shops, cars, work_orders, reminders, sms_log, sweep,
                   jobs, updates, invoices, appointments, staff, customers>>

\* decode_token: TokenData(user_id, role, shop_id)
decode_token(token) ==
    [user_id |-> int(token.sub), role |-> token.role, shop_id |-> token.shop_id]

\* get_current_user: the row that the token is resolved to (HTTP 401 when
\* there is none)
get_current_user(token) ==
    LET token_data == decode_token(token)
    IN IF token_data.user_id \in DOMAIN staff
       THEN [kind |-> "Staff", id |-> token_data.user_id]
       ELSE IF token_data.user_id \in DOMAIN customers
       THEN [kind |-> "Customer", id |-> token_data.user_id]
       ELSE [kind |-> "401", id |-> token_data.user_id]

\* get_current_staff: isinstance(current_user, Staff)
get_current_staff(token) == get_current_user(token).kind = "Staff"

\* require_role(*allowed_roles): the role of the row, not of the token
require_role(token, allowed_roles) ==
    /\ get_current_staff(token)
    /\ staff[get_current_user(token).id].role \in allowed_roles

NextAuth ==
    \/ \E r \in StaffRoles, s \in AccountShops : create_staff(r, s)
    \/ \E s \in AccountShops : register_customer(s)
    \/ \E s \in 1..MaxAccounts : staff_login(s)
    \/ \E c \in 1..MaxAccounts : customer_login(c)

SpecAuth == InitAuth /\ [][NextAuth]_vars

----------------------------------------------------------------------------
(* Vocabulary of the properties *)

\* The sink returned (True or False) for the car in job j
Notified(j, car_id) == \E l \in sms_log : l.job = j /\ l.car_id = car_id

\* The sink reported failure for the car in the firing before the one that
\* execution context p is running
FailedBefore(p, car_id) ==
    \E l \in sms_log :
        l.car_id = car_id /\ l.status = "failed" /\ l.job + 1 = sweep[p].job

\* The sink has just returned True for the head item of p, which is about
\* to be marked
BeingMarked(p, l) ==
    /\ sweep[p].pc = "mark"
    /\ sweep[p].job = l.job
    /\ Head(sweep[p].todo).reminder_id = l.reminder_id

Abs(x) == IF x < 0 THEN 0 - x ELSE x

\* Two different successful notifications of one car
TwoSent(l1, l2) ==
    /\ l1 # l2
    /\ l1.status = "sent" /\ l2.status = "sent"
    /\ l1.car_id = l2.car_id

----------------------------------------------------------------------------
\* C1: with the firings of the trigger run one after the other and the sink
\* succeeding or failing at will, every car has at most one unsent reminder
\* row; a car whose notification failed in one sweep and that is flagged due
\* by the next has exactly one unsent row (the sweep added none).
C1_AtMostOneUnsent ==
    /\ \A c \in CarIds : Cardinality(UnsentReminders(c)) <= 1
    /\ \A p \in Procs : \A i \in DOMAIN sweep[p].todo :
          FailedBefore(p, sweep[p].todo[i].car)
             => Cardinality(UnsentReminders(sweep[p].todo[i].car)) = 1

\* a car is flagged due again after a failed notification
C1_Witness ==
    /\ sweep[1].pc = "send"
    /\ FailedBefore(1, Head(sweep[1].todo).car)

\* C2: a sweep neither creates a reminder row nor calls the sink for a car
\* that has a sent reminder whose reminder_sent_at is within 30 days before
\* now; two successful notifications of one car are at least 30 days apart
\* (so a second sweep right after a successful one sends nothing).
C2_Suppression ==
    /\ \A p \in Procs :
          /\ sweep[p].pc = "create" => RecentReminders(Head(sweep[p].cars)) = {}
          /\ sweep[p].pc = "send" => RecentReminders(Head(sweep[p].todo).car) = {}
    /\ \A l1, l2 \in sms_log :
          TwoSent(l1, l2) => Abs(l1.sent_at - l2.sent_at) >= RecentDays

\* the second sweep has evaluated car 1, which was notified by the first,
\* and ended without calling the sink for it
C2_Witness ==
    /\ sweep[1].pc = "idle" /\ sweep[1].job = 2 /\ ~sweep[1].error
    /\ 1 \in sweep[1].evaluated
    /\ RecentReminders(1) # {}
    /\ ~Notified(2, 1)

\* C3: two interleaved executions of the sweep never both create an unsent
\* reminder row for one car: no car has two unsent rows.
C3_NoTwoUnsent ==
    \A c \in CarIds : ~(\E r1, r2 \in UnsentReminders(c) : r1 # r2)

\* C4: duplicate or overlapping firings never produce two successful
\* notifications of one car within the suppression window.
C4_NoDuplicateNotification ==
    \A l1, l2 \in sms_log :
        TwoSent(l1, l2) => Abs(l1.sent_at - l2.sent_at) > RecentDays

\* C5: when a run of check_service_reminders has ended, every active,
\* SMS-enabled shop has been swept in it, also when the processing of one
\* shop raised.
C5_AllShopsSwept ==
    \A p \in Procs :
        (sweep[p].pc = "idle" /\ sweep[p].job > 0)
           => sweep[p].swept = sweep[p].selected

\* C6: when a run has ended, every car returned by the car query of a swept
\* shop has been evaluated and every car flagged due has been handed to the
\* sink, also when the evaluation or the notification of one car raised.
C6_AllCarsHandled ==
    \A p \in Procs :
        (sweep[p].pc = "idle" /\ sweep[p].job > 0)
           => /\ sweep[p].listed \subseteq sweep[p].evaluated
              /\ sweep[p].todo = <<>>

\* C7: a sink failure (False) for one car does not take any other due car of
\* the shop out of the sweep: each car flagged due is still waiting for the
\* sink or has been handed to it, at the end of the shop's send loop all
\* have been handed to it, and a success is followed by marking the row.
C7_FailureIsolated ==
    \A p \in Procs :
        LET s == sweep[p]
            sending == s.pc \in {"send", "mark"}
            over == s.pc \in {"shop", "idle"} /\ ~s.error
        IN /\ (sending \/ over) =>
                 \A i \in DOMAIN s.cars_needing_reminders :
                     LET it == s.cars_needing_reminders[i]
                     IN \/ \E k \in DOMAIN s.todo : s.todo[k] = it
                        \/ Notified(s.job, it.car)
           /\ over => s.todo = <<>>
           /\ \A l \in sms_log :
                 (l.job = s.job /\ l.status = "sent")
                    => \/ reminders[l.reminder_id].reminder_sent
                       \/ BeingMarked(p, l)

\* the sink failed for car 1, and car 2 was notified and marked in the same
\* sweep
C7_Witness ==
    /\ sweep[1].pc = "idle" /\ ~sweep[1].error
    /\ \E la, lb \in sms_log :
          /\ la.job = sweep[1].job /\ lb.job = sweep[1].job
          /\ la.car_id = 1 /\ la.status = "failed"
          /\ lb.car_id = 2 /\ lb.status = "sent"
          /\ la.shop_id = lb.shop_id
          /\ reminders[lb.reminder_id].reminder_sent

\* C8: a reminder for which the sink has only failed stays unsent with no
\* reminder_sent_at, and a later sweep that flags the car due hands the same
\* row (same id) to the sink again, however often it failed before.
C8_RetrySameRow ==
    /\ \A r \in DOMAIN reminders :
          (\A l \in sms_log : l.reminder_id = r => l.status = "failed")
             => /\ ~reminders[r].reminder_sent
                /\ reminders[r].reminder_sent_at = None
    /\ \A p \in Procs : \A i \in DOMAIN sweep[p].cars_needing_reminders :
          LET it == sweep[p].cars_needing_reminders[i]
          IN \A l \in sms_log :
                (/\ l.car_id = it.car
                 /\ l.status = "failed"
                 /\ l.job < sweep[p].job
                 /\ ~reminders[l.reminder_id].reminder_sent)
                   => it.reminder_id = l.reminder_id

\* the sink was called for one row in two sweeps and failed the first time
C8_Witness ==
    \E l1, l2 \in sms_log :
        /\ l1.reminder_id = l2.reminder_id
        /\ l1.job < l2.job
        /\ l1.status = "failed"

\* C9: the row of every car flagged due by the running sweep holds the
\* predicted_mileage and service_due_mileage computed in this sweep, also
\* when the row existed before.
C9_ReusedRowUpToDate ==
    \A p \in Procs : \A i \in DOMAIN sweep[p].cars_needing_reminders :
        LET it == sweep[p].cars_needing_reminders[i]
        IN /\ reminders[it.reminder_id].predicted_mileage = it.predicted_mileage
           /\ reminders[it.reminder_id].service_due_mileage = it.service_due_mileage

\* C10: reminder_sent_at is set iff reminder_sent; a row is sent exactly when
\* the sink succeeded for it (and the job has marked it), with
\* reminder_sent_at the time of marking; rows for which the sink only failed
\* or was never called have neither field changed.
C10_SentAtIffSent ==
    \A r \in DOMAIN reminders :
        LET row == reminders[r]
            marked == {l \in sms_log :
                         /\ l.reminder_id = r
                         /\ l.status = "sent"
                         /\ ~(\E p \in Procs : BeingMarked(p, l))}
        IN /\ (row.reminder_sent_at # None) <=> row.reminder_sent
           /\ row.reminder_sent <=> (marked # {})
           /\ row.reminder_sent =>
                 \E l \in marked : /\ row.reminder_sent_at = Some(l.sent_at)
                                   /\ row.car_id = l.car_id

\* one row was marked sent after a success while the row of another car,
\* for which the sink failed, is unsent
C10_Witness ==
    \E l1, l2 \in sms_log :
        /\ l1.status = "sent" /\ reminders[l1.reminder_id].reminder_sent
        /\ l2.status = "failed" /\ ~reminders[l2.reminder_id].reminder_sent
        /\ l1.car_id # l2.car_id

----------------------------------------------------------------------------
(* Lifecycle of a reminder row and of the odometer *)

\* C11: in every step of the sweep no reminder row is deleted or moved to
\* another car, a sent row stays as it is (sent, with its reminder_sent_at),
\* and a row that appears is unsent, without reminder_sent_at, and appears
\* only when its car had no unsent row before the step.
C11_Lifecycle ==
    [][/\ Len(reminders') >= Len(reminders)
       /\ \A r \in DOMAIN reminders :
              /\ reminders'[r].car_id = reminders[r].car_id
              /\ reminders[r].reminder_sent =>
                    /\ reminders'[r] = reminders[r]
                    /\ reminders[r].reminder_sent_at # None
       /\ \A r \in DOMAIN reminders' \ DOMAIN reminders :
              /\ ~reminders'[r].reminder_sent
              /\ reminders'[r].reminder_sent_at = None
              /\ UnsentReminders(reminders'[r].car_id) = {}]_vars

\* C12: no step lowers the current_mileage of a car
C12_MileageNeverDecreases ==
    [][\A c \in DOMAIN cars :
          Val(cars'[c].current_mileage) >= Val(cars[c].current_mileage)]_vars

----------------------------------------------------------------------------
(* The predictor on visit histories *)

\* The qualifying visits of a car: its completed work orders with a reading
Qualifying(car_id) ==
    {w \in DOMAIN work_orders :
        /\ work_orders[w].car_id = car_id
        /\ work_orders[w].status = "done"
        /\ work_orders[w].mileage_at_intake # None}

\* The visits of the predictor: the first and the last row of its list
FirstUsed(car_id) == work_orders[visit_list(car_id)[1]]
LastUsed(car_id) == work_orders[visit_list(car_id)[Len(visit_list(car_id))]]

RateBetween(a, b) ==
    LET distanceDelta == Val(work_orders[b].mileage_at_intake)
                           - Val(work_orders[a].mileage_at_intake)
    IN  [km |-> IF distanceDelta > 0 THEN distanceDelta ELSE 0,
         days |-> work_orders[b].created_at - work_orders[a].created_at]

\* C14: a car with fewer than MIN_VISITS_FOR_PREDICTION qualifying visits has
\* no rate; the list the rate is computed from holds qualifying visits only,
\* and a rate is the rate between two qualifying visits of the car: an order
\* that is not done or has no reading is not counted and not measured.
C14_OnlyQualifyingCount ==
    \A c \in CarIds :
        LET rate == calculate_average_km_per_day(c)
            list == visit_list(c)
        IN  /\ Cardinality(Qualifying(c)) < MIN_VISITS_FOR_PREDICTION => rate = None
            /\ Len(list) = Cardinality(Qualifying(c))
            /\ \A i \in DOMAIN list : list[i] \in Qualifying(c)
            /\ rate # None =>
                  \E a, b \in Qualifying(c) : Val(rate) = RateBetween(a, b)

\* A car has one qualifying visit and, taken in on another day, an order
\* with a reading that is not done
C14_Witness ==
    \E c \in CarIds : \E q \in Qualifying(c) :
        /\ Cardinality(Qualifying(c)) = 1
        /\ \E w \in DOMAIN work_orders :
              /\ work_orders[w].car_id = c
              /\ work_orders[w].status # "done"
              /\ work_orders[w].mileage_at_intake # None
              /\ work_orders[w].created_at # work_orders[q].created_at

\* C15: when all qualifying visits of a car (two or more) were taken in on
\* the same day, whatever their readings, the car has no rate, no predicted
\* mileage and needs_service_reminder answers (False, None, None).
C15_ZeroDaysApart ==
    \A c \in CarIds :
        (/\ Cardinality(Qualifying(c)) >= MIN_VISITS_FOR_PREDICTION
         /\ \A a, b \in Qualifying(c) :
               work_orders[a].created_at = work_orders[b].created_at)
        => /\ calculate_average_km_per_day(c) = None
           /\ predict_mileage(c, SERVICE_REMINDER_DAYS_AHEAD) = None
           /\ needs_service_reminder(c) = <<FALSE, None, None>>

\* Two qualifying visits of a car on the same day with different readings
C15_Witness ==
    \E c \in CarIds : \E a, b \in Qualifying(c) :
        /\ work_orders[a].mileage_at_intake # work_orders[b].mileage_at_intake
        /\ \A x, y \in Qualifying(c) :
              work_orders[x].created_at = work_orders[y].created_at

\* The earliest and the latest qualifying visit of a car (by creation time,
\* equal times in the order of the ids)
Earliest(car_id) ==
    CHOOSE w \in Qualifying(car_id) : \A y \in Qualifying(car_id) :
        \/ work_orders[w].created_at < work_orders[y].created_at
        \/ work_orders[w].created_at = work_orders[y].created_at /\ w <= y

Latest(car_id) ==
    CHOOSE w \in Qualifying(car_id) : \A y \in Qualifying(car_id) :
        \/ work_orders[w].created_at > work_orders[y].created_at
        \/ work_orders[w].created_at = work_orders[y].created_at /\ w >= y

Reading(w) == Val(work_orders[w].mileage_at_intake)

DayDelta(car_id) ==
    work_orders[Latest(car_id)].created_at - work_orders[Earliest(car_id)].created_at

\* C16: with two or more qualifying visits and the earliest and latest a
\* positive number of days apart, the rate exists, is never negative, is
\* (latest reading - earliest reading) / dayDelta when that is positive and
\* 0 when the latest reading is below the earliest; 70000 and, 100 days
\* later, 80000 give 100 km per day.
C16_RateValue ==
    \A c \in CarIds :
        (Cardinality(Qualifying(c)) >= MIN_VISITS_FOR_PREDICTION /\ DayDelta(c) > 0) =>
            LET rate == calculate_average_km_per_day(c)
                earliestOdometer == Reading(Earliest(c))
                latestOdometer == Reading(Latest(c))
                distanceDelta == latestOdometer - earliestOdometer
                dayDelta == DayDelta(c)
            IN  /\ rate # None
                /\ Val(rate).days > 0
                /\ Val(rate).km >= 0
                /\ distanceDelta >= 0 =>
                      Val(rate).km * dayDelta = distanceDelta * Val(rate).days
                /\ distanceDelta < 0 => Val(rate).km = 0
                /\ (/\ earliestOdometer = 70000
                    /\ latestOdometer = 80000
                    /\ dayDelta = 100) => Val(rate).km = 100 * Val(rate).days

\* The latest qualifying visit of a car, days after the earliest, has the
\* lower reading
C16_Witness ==
    \E c \in CarIds :
        /\ Cardinality(Qualifying(c)) >= MIN_VISITS_FOR_PREDICTION
        /\ DayDelta(c) > 0
        /\ Reading(Latest(c)) < Reading(Earliest(c))

\* Time and reading of the earliest and of the latest qualifying visit
Boundary(car_id) ==
    IF Qualifying(car_id) = {} THEN <<>>
    ELSE <<work_orders[Earliest(car_id)].created_at, Reading(Earliest(car_id)),
           work_orders[Latest(car_id)].created_at, Reading(Latest(car_id))>>

\* C17: a step that adds or removes qualifying visits of a car and leaves
\* time and reading of its earliest and latest qualifying visit as they are
\* leaves the rate of the car as it is.
C17_OnlyBoundaryVisits ==
    [][\A c \in CarIds :
          (Qualifying(c)' # Qualifying(c) /\ Boundary(c)' = Boundary(c)) =>
              calculate_average_km_per_day(c)' = calculate_average_km_per_day(c)]_vars

\* A car has a rate and a qualifying visit strictly between its earliest
\* and latest, with a reading that is not the latest
C17_Witness ==
    \E c \in CarIds : \E m \in Qualifying(c) :
        /\ calculate_average_km_per_day(c) # None
        /\ work_orders[Earliest(c)].created_at < work_orders[m].created_at
        /\ work_orders[m].created_at < work_orders[Latest(c)].created_at
        /\ Reading(m) # Reading(Latest(c))

C19_Threshold ==
    \A car_id \in CarIds :
        LET result == needs_service_reminder(car_id)
        IN  result[3] # None =>
            LET c == Val(cars[car_id].current_mileage)
                i == cars[car_id].service_interval_km
                threshold == Val(result[3])
            IN  (c >= 0 /\ i > 0) =>
                    /\ threshold = (c - (c % i)) + i
                    /\ threshold % i = 0
                    /\ threshold > c
                    /\ threshold <= c + i
                    /\ (c = 97000 /\ i = 10000) => threshold = 100000

\* A car that received requests has a threshold and its current mileage,
\* raised by a completed order, is a multiple of its interval
C19_Witness ==
    \E car_id \in VisitCars :
        /\ needs_service_reminder(car_id)[3] # None
        /\ Val(cars[car_id].current_mileage) = 90000
        /\ Val(cars[car_id].current_mileage) % cars[car_id].service_interval_km = 0

----------------------------------------------------------------------------
(* The decision of the sweep *)

\* The threshold of a car: the next multiple of its interval
DueAt(car_id) ==
    Val(cars[car_id].current_mileage)
        - (Val(cars[car_id].current_mileage) % cars[car_id].service_interval_km)
        + cars[car_id].service_interval_km

\* C20: needs_service_reminder answers (False, None, None) for a car that
\* does not exist or has no predicted mileage; otherwise it answers the
\* mileage predicted for SERVICE_REMINDER_DAYS_AHEAD days, the threshold, and
\* due exactly when the predicted mileage has reached the threshold (with
\* visits of 85000 and, 60 days later, 95000: not due at 95000, due at
\* 99000).  Every reminder row, every item handed to the sink and every
\* logged call of the sink holds a predicted mileage that had reached the
\* threshold when the car was evaluated.
C20_DueIffReached ==
    /\ \A c \in CarIds \cup {MissingCar} :
          LET predicted == predict_mileage(c, SERVICE_REMINDER_DAYS_AHEAD)
              result == needs_service_reminder(c)
          IN  IF c \notin DOMAIN cars \/ predicted = None
              THEN result = <<FALSE, None, None>>
              ELSE /\ result[2] = predicted
                   /\ result[3] = Some(DueAt(c))
                   /\ result[1] <=> (Val(predicted) >= DueAt(c))
                   /\ (Val(cars[c].current_mileage) = 95000
                          /\ Val(predicted) = 95000 + 2333) => ~result[1]
                   /\ (Val(cars[c].current_mileage) = 99000
                          /\ Val(predicted) = 99000 + 2333) => result[1]
    /\ \A r \in DOMAIN reminders :
          reminders[r].predicted_mileage >= reminders[r].service_due_mileage
    /\ \A p \in Procs :
          /\ sweep[p].pc = "create" =>
                Val(sweep[p].predicted_km) >= Val(sweep[p].service_due_km)
          /\ \A i \in DOMAIN sweep[p].cars_needing_reminders :
                sweep[p].cars_needing_reminders[i].predicted_mileage
                    >= sweep[p].cars_needing_reminders[i].service_due_mileage
    /\ \A l \in sms_log :
          /\ l.reminder_id \in DOMAIN reminders
          /\ reminders[l.reminder_id].car_id = l.car_id

\* A sweep has evaluated car 1 at 95000 km (predicted, not due) and car 3
\* (no predicted mileage) without a row or a call of the sink for them, and
\* called the sink for car 2 (due)
C20_Witness ==
    \E p \in Procs :
        /\ {1, 2, 3} \subseteq sweep[p].evaluated
        /\ Val(cars[1].current_mileage) = 95000
        /\ needs_service_reminder(1) = <<FALSE, Some(97333), Some(100000)>>
        /\ needs_service_reminder(3) = <<FALSE, None, None>>
        /\ \A r \in DOMAIN reminders : reminders[r].car_id = 2
        /\ \E l \in sms_log : l.car_id = 2
        /\ \A l \in sms_log : l.car_id = 2

\* C21: none of the three predictor operations raises: for every car id, in
\* the store or not, and every number of days, calculate_average_km_per_day
\* and predict_mileage return a value, and so does needs_service_reminder
\* for every car with a positive service interval
C21_NeverRaises ==
    \A c \in CarIds \cup {MissingCar} :
        /\ ~IsRaise(calculate_average_km_per_day(c))
        /\ \A d \in DaysAhead : ~IsRaise(predict_mileage(c, d))
        /\ (c \in DOMAIN cars /\ cars[c].service_interval_km > 0)
               => ~IsRaise(needs_service_reminder(c))

\* C22: every step of a sweep leaves the table cars and the table
\* work_orders as they are and keeps every ServiceReminder row (rows are
\* added or updated, never deleted); the step that applies the predictor
\* operations to a car writes no table at all
C22_SweepFrame ==
    [][\A p \in Procs :
          sweep'[p] # sweep[p] =>
              /\ cars' = cars
              /\ work_orders' = work_orders
              /\ Len(reminders') >= Len(reminders)
              /\ \A r \in DOMAIN reminders :
                    /\ reminders'[r].car_id = reminders[r].car_id
                    /\ reminders'[r].created_at = reminders[r].created_at
              /\ sweep[p].pc = "car" =>
                    /\ reminders' = reminders
                    /\ sms_log' = sms_log
                    /\ shops' = shops]_vars

\* a sweep has created a row, called the sink and marked the row
C22_Witness ==
    /\ sweep[1].pc = "idle"
    /\ sweep[1].evaluated # {}
    /\ \E r \in DOMAIN reminders : reminders[r].reminder_sent
    /\ sms_log # {}

\* C23: a car whose service interval is not positive is left out of the
\* sweep: no ServiceReminder row and no sink call is for such a car, and no
\* step of a sweep calls needs_service_reminder for such a car
C23_NonPositiveExcluded ==
    /\ [](/\ \A r \in DOMAIN reminders :
                cars[reminders[r].car_id].service_interval_km > 0
          /\ \A l \in sms_log : cars[l.car_id].service_interval_km > 0)
    /\ [][\A p \in Procs :
            (sweep[p].pc = "car" /\ sweep'[p].invoked # sweep[p].invoked)
                => cars[Head(sweep[p].cars)].service_interval_km > 0]_vars

\* the shop is active and has SMS notifications enabled
Eligible(shop_id) == shops[shop_id].is_active /\ shops[shop_id].sms_enabled

C25_Completion ==
    [][\A w \in DOMAIN work_orders, u \in OrderUpdates :
          (/\ "status" \in DOMAIN u
           /\ u.status = "done"
           /\ update_work_order(w, u)) =>
              LET wo == work_orders[w]
                  after == work_orders'[w]
                  current == Val(cars[wo.car_id].current_mileage)
              IN IF wo.completed_at = None
                 THEN /\ after.completed_at = Some(now)
                      /\ IF /\ after.mileage_at_intake # None
                            /\ Val(after.mileage_at_intake) > current
                         THEN cars' = [cars EXCEPT ![wo.car_id].current_mileage =
                                                       after.mileage_at_intake]
                         ELSE cars' = cars
                 ELSE after.completed_at = wo.completed_at]_vars

\* order 2 (reading 90000) was completed on day 0, which raised the mileage
\* of car 1 to 90000; on day 60 it was set to in_progress and to done again
\* and is still completed on day 0; order 1 was completed with the reading
\* 80000, which left the mileage as it was
C25_Witness ==
    /\ now = 60
    /\ work_orders[2].status = "done"
    /\ work_orders[2].completed_at = Some(0)
    /\ work_orders[2].started_at = Some(60)
    /\ work_orders[1].status = "done"
    /\ work_orders[1].mileage_at_intake = Some(80000)
    /\ work_orders[1].completed_at = Some(60)
    /\ cars[1].current_mileage = Some(90000)

\* C26: a request that sets the status of an order to in_progress sets
\* started_at when it was unset, and the row it returns has the status
\* in_progress; no request changes a started_at that is set; a request
\* without a status changes neither started_at nor completed_at
C26_Start ==
    [][\A w \in DOMAIN work_orders, u \in OrderUpdates :
          update_work_order(w, u) =>
              LET wo == work_orders[w]
                  after == work_orders'[w]
              IN /\ ("status" \in DOMAIN u /\ u.status = "in_progress") =>
                       /\ after.status = "in_progress"
                       /\ wo.started_at = None => after.started_at = Some(now)
                 /\ wo.started_at # None => after.started_at = wo.started_at
                 /\ "status" \notin DOMAIN u =>
                       /\ after.started_at = wo.started_at
                       /\ after.completed_at = wo.completed_at]_vars

\* order 1 was started on day 0 and completed; on day 60 it is in progress
\* again, with the start of day 0
C26_Witness ==
    /\ now = 60
    /\ work_orders[1].status = "in_progress"
    /\ work_orders[1].started_at = Some(0)
    /\ work_orders[1].completed_at # None
    /\ work_orders[1].mileage_at_intake = Some(80000)

\* the car-ready messages of the invoice
CarReady(i) == {l \in sms_log : l.message_type = "car_ready" /\ l.invoice_id = i}

\* C28: a request that changes the status of an invoice from a status
\* other than paid to paid sets paid_at and calls the sink once with the
\* car-ready message; a request that changes the status from draft to
\* finalized sets finalized_at and finalized_by_staff_id
C28_InvoiceStatusChange ==
    [][\A i \in DOMAIN invoices :
          /\ (invoices[i].status # "paid" /\ invoices'[i].status = "paid") =>
                /\ invoices'[i].paid_at = Some(now)
                /\ Cardinality(CarReady(i)' \ CarReady(i)) = 1
          /\ (invoices[i].status = "draft" /\ invoices'[i].status = "finalized") =>
                /\ invoices'[i].finalized_at = Some(now)
                /\ invoices'[i].finalized_by_staff_id # None]_vars

\* the calls of the sink with the confirmation of the appointment
Confirmations(a) ==
    {l \in sms_log : l.message_type = "appointment_confirmed" /\ l.appointment_id = a}

\* C29: over every sequence of update requests the sink is called at most
\* once with the confirmation of an appointment, and only by a request that
\* moves the appointment from requested to confirmed; after the call
\* sms_sent is true and stays true
C29_ConfirmationOnce ==
    /\ [](\A a \in DOMAIN appointments :
            /\ Cardinality(Confirmations(a)) <= 1
            /\ Confirmations(a) # {} => appointments[a].sms_sent)
    /\ [][\A a \in DOMAIN appointments :
            /\ Confirmations(a)' # Confirmations(a) =>
                  /\ appointments[a].status = "requested"
                  /\ appointments'[a].status = "confirmed"
                  /\ ~appointments[a].sms_sent
            /\ appointments[a].sms_sent => appointments'[a].sms_sent]_vars

\* appointment 1 was confirmed on day 0, with a message, moved back to
\* requested and confirmed again on day 60, by the other member of staff
C29_Witness ==
    /\ now = 60
    /\ appointments[1].status = "confirmed"
    /\ appointments[1].confirmed_date = Some(60)
    /\ appointments[1].confirmed_by_staff_id = Some(2)
    /\ appointments[1].sms_sent
    /\ appointments[1].sms_sent_at = Some(0)
    /\ Cardinality(Confirmations(1)) = 1

\* C30: a token that customer_login issued is never resolved to a row of
\* the table staff: it passes neither get_current_staff nor a check of a
\* staff role, whatever the ids of staff and customers are
C30_CustomerNeverStaff ==
    \A t \in tokens :
        t.role = "customer" =>
            /\ get_current_user(t).kind # "Staff"
            /\ ~get_current_staff(t)
            /\ ~require_role(t, StaffRoles)

\* C27: car 2 of shop 1 (active, SMS enabled) stays due and has no recent
\* sent reminder, the trigger keeps firing and the sink succeeds at some time
\* when it is called for the car again and again: a ServiceReminder row of
\* the car eventually has reminder_sent = True
C27_EventuallySent ==
    <>(\E r \in DOMAIN reminders :
          reminders[r].car_id = 2 /\ reminders[r].reminder_sent)

============================================================================
